---- MODULE Spec2Model ----
(***************************************************************************)
(* Model of CGATCore/Pipeline/Control.py: the progress tracker             *)
(* (LoggingFilterProgress), made of the plan parser run by __init__ and    *)
(* the streaming log filter.                                               *)
(*                                                                         *)
(* Text is a sequence of tokens.  A token is a run of characters that no   *)
(* pattern of the code can match a part of: a word ("Job", "Task",         *)
(* "out1"), a punctuation mark ("=", "[", "]", "->", "::"), one            *)
(* whitespace character (" "), or a fixed phrase that the code only ever   *)
(* tests as a whole ("Job needs update", "Tasks which will be run").       *)
(***************************************************************************)
EXTENDS Integers, Sequences, FiniteSets, TLC

VARIABLES pc, ruffus_text, tasks, jobs, map_job2task,
          record, decision, attached, emitted, events, nrecords,
          inner, nlogged

\* the filesystem query cache
VARIABLES os_entry, memo, fs, region, last_exit, seen, last_call,
          nactivations, ncalls

trackerVars == <<pc, ruffus_text, tasks, jobs, map_job2task,
                 record, decision, attached, emitted, events, nrecords,
                 inner, nlogged>>

\* the cooperative pool
VARIABLES greenlets, results, waiter, timeout, elapsed, got, accepting,
          reported, pool_op

cacheVars == <<os_entry, memo, fs, region, last_exit, seen, last_call,
               nactivations, ncalls>>

poolVars == <<greenlets, results, waiter, timeout, elapsed, got, accepting,
              reported, pool_op>>

\* one call of main
VARIABLES main_pc, pipeline_action, without_cluster, task_Pool, session,
          nopened, nclosed, ntodo, worker, job_error

mainVars == <<main_pc, pipeline_action, without_cluster, task_Pool, session,
              nopened, nclosed, ntodo, worker, job_error>>

\* the dump of the task graph
VARIABLES dag_pc, edges, target_tasks, forcedtorun_tasks, stack, visited,
          written

dagVars == <<dag_pc, edges, target_tasks, forcedtorun_tasks, stack, visited,
             written>>

vars == <<trackerVars, cacheVars, poolVars, mainVars, dagVars>>

(***************************************************************************)
(* Bounds of the model.                                                    *)
(***************************************************************************)
MaxLines == 4

MaxRecords == 2

MaxActivations == 2

MaxCalls == 2

MaxUnits == 3

MaxTicks == 1

MaxTasks == 2

MaxEdges == 3

MaxTargets == 2

MaxRows == 12

MaxDepth == 2

(***************************************************************************)
(* Text primitives (Python str / re operations used by the code).          *)
(***************************************************************************)
WS == " "

\* number of consecutive whitespace tokens of s starting at index i: \s*
RECURSIVE WsRun(_, _)
WsRun(s, i) ==
    IF i <= Len(s) /\ s[i] = WS THEN 1 + WsRun(s, i + 1) ELSE 0

\* str.strip()
Strip(s) ==
    LET ne == {i \in 1..Len(s) : s[i] # WS}
    IN  IF ne = {} THEN <<>>
        ELSE LET lo == CHOOSE i \in ne : \A j \in ne : i <= j
                 hi == CHOOSE i \in ne : \A j \in ne : i >= j
             IN  SubSeq(s, lo, hi)

\* str.startswith(p)
StartsWith(s, p) == Len(s) >= Len(p) /\ SubSeq(s, 1, Len(p)) = p

\* p in s
Contains(s, p) ==
    \E i \in 1..(Len(s) - Len(p) + 1) : SubSeq(s, i, i + Len(p) - 1) = p

\* re.sub("\s", "", s)
RemoveWS(s) == SelectSeq(s, LAMBDA t : t # WS)

\* "".join(lines)
RECURSIVE Join(_)
Join(lines) ==
    IF lines = <<>> THEN <<>> ELSE Head(lines) \o Join(Tail(lines))

\* The pattern  word\s+=  matches at index i of s: the word, one or more
\* whitespace characters, an equals sign.
WordEqAt(word, s, i) ==
    /\ i <= Len(s)
    /\ s[i] = word
    /\ WsRun(s, i + 1) >= 1
    /\ i + WsRun(s, i + 1) + 1 <= Len(s)
    /\ s[i + WsRun(s, i + 1) + 1] = "="

\* re.search(word\s+=, s) is not None
SearchWordEq(word, s) == \E i \in 1..Len(s) : WordEqAt(word, s, i)

\* re.split("Job\s+=", s)
RECURSIVE SplitJobEq(_)
SplitJobEq(s) ==
    LET hits == {i \in 1..Len(s) : WordEqAt("Job", s, i)}
    IN  IF hits = {} THEN <<s>>
        ELSE LET i == CHOOSE h \in hits : \A g \in hits : h <= g
                 e == i + WsRun(s, i + 1) + 1
             IN  <<SubSeq(s, 1, i - 1)>> \o SplitJobEq(SubSeq(s, e + 1, Len(s)))

\* re.search(r"\[.*-> ([^\]]+)\]", s): the captured group, <<>> when the
\* pattern does not match (a match always captures at least one character).
\* The search starts at the leftmost "[" that has a usable arrow behind it;
\* the greedy .* then takes the last arrow "-> " that is followed by one or
\* more characters other than "]" and then a "]".
BracketGroup(s) ==
    LET FirstClose(j) ==
            LET cl == {k \in (j + 2)..Len(s) : s[k] = "]"}
            IN  IF cl = {} THEN 0
                ELSE CHOOSE k \in cl : \A m \in cl : k <= m
        arrows == {j \in 1..Len(s) :
                     /\ s[j] = "->"
                     /\ j + 1 <= Len(s)
                     /\ s[j + 1] = WS
                     /\ \E i \in 1..(j - 1) : s[i] = "["
                     /\ FirstClose(j) >= j + 3}
    IN  IF arrows = {} THEN <<>>
        ELSE LET j == CHOOSE a \in arrows : \A b \in arrows : a >= b
             IN  SubSeq(s, j + 2, FirstClose(j) - 1)

\* re.sub('^\"[^"]+\"', "", s): drop a leading docstring in double quotes
RemoveDocstring(s) ==
    LET q == {k \in 2..Len(s) : s[k] = "\""}
    IN  IF Len(s) >= 1 /\ s[1] = "\"" /\ q # {}
        THEN LET k == CHOOSE a \in q : \A b \in q : a <= b
             IN  IF k >= 3 THEN SubSeq(s, k + 1, Len(s)) ELSE s
        ELSE s

\* re.sub("^[^:]+::", "", name): drop the namespace prefix
StripNamespace(name) ==
    LET c == {k \in 1..Len(name) : name[k] \in {":", "::"}}
    IN  IF c = {} THEN name
        ELSE LET k == CHOOSE a \in c : \A b \in c : a <= b
             IN  IF k >= 2 /\ name[k] = "::"
                 THEN SubSeq(name, k + 1, Len(name)) ELSE name

\* str.split(" = ")
RECURSIVE SplitEq(_)
SplitEq(s) ==
    LET hits == {i \in 1..(Len(s) - 2) :
                   s[i] = WS /\ s[i + 1] = "=" /\ s[i + 2] = WS}
    IN  IF hits = {} THEN <<s>>
        ELSE LET i == CHOOSE h \in hits : \A g \in hits : h <= g
             IN  <<SubSeq(s, 1, i - 1)>> \o SplitEq(SubSeq(s, i + 3, Len(s)))

(***************************************************************************)
(* The plan parser: LoggingFilterProgress.__init__                         *)
(***************************************************************************)
NoStatus == "None"

\* split_by_job(block): the <<job_name, job_status>> pairs of a block
RECURSIVE JobsOfFragments(_)
JobsOfFragments(frags) ==
    IF frags = <<>> THEN <<>>
    ELSE LET line == Head(frags)
             rest == JobsOfFragments(Tail(frags))
         IN  IF Strip(line) = <<>> THEN rest
             ELSE IF Contains(line, <<"Make missing directories">>) THEN rest
             ELSE IF BracketGroup(line) = <<>> THEN rest
             ELSE <<[job_name |-> BracketGroup(line),
                     job_status |-> IF Contains(line, <<"Job needs update">>)
                                    THEN "update" ELSE "ignore"]>> \o rest

split_by_job(block) ==
    JobsOfFragments(SplitJobEq(RemoveDocstring(Join(block))))

\* split_by_task(text): the loop over the lines from line i on, with the
\* generator's locals block, task_name (<<>> is None) and task_status.
RECURSIVE SplitByTaskFrom(_, _, _, _, _)
SplitByTaskFrom(lines, i, block, task_name, task_status) ==
    IF i > Len(lines)
    THEN IF task_name # <<>>
         THEN <<[task_name |-> task_name, task_status |-> task_status,
                 jobs |-> split_by_job(block)]>>
         ELSE <<>>
    ELSE LET line == Strip(lines[i])
         IN  IF StartsWith(line, <<"Tasks which will be run">>)
             THEN SplitByTaskFrom(lines, i + 1, <<>>, task_name, "update")
             ELSE IF StartsWith(line, <<"Tasks which are up-to-date">>)
             THEN SplitByTaskFrom(lines, i + 1, <<>>, task_name, "ignore")
             ELSE IF StartsWith(line, <<"Task", WS, "=", WS>>)
             THEN (IF task_name # <<>>
                   THEN <<[task_name |-> task_name,
                           task_status |-> task_status,
                           jobs |-> split_by_job(block)]>>
                   ELSE <<>>)
                  \o SplitByTaskFrom(lines, i + 1, <<>>,
                                     SubSeq(line, 5, Len(line)), task_status)
             ELSE IF line # <<>>
             THEN SplitByTaskFrom(lines, i + 1, Append(block, line),
                                  task_name, task_status)
             ELSE SplitByTaskFrom(lines, i + 1, block, task_name, task_status)

split_by_task(text) == SplitByTaskFrom(text, 1, <<>>, <<>>, NoStatus)

\* d[k] = v on a dictionary
Put(d, k, v) == [x \in DOMAIN d \cup {k} |-> IF x = k THEN v ELSE d[x]]

EmptyDict == [x \in {} |-> 0]

\* every job that needs an update counted twice (to_run += 2)
RECURSIVE PopulateJobs_CountsTwice(_, _, _)
PopulateJobs_CountsTwice(st, task_name, js) ==
    IF js = <<>> THEN st
    ELSE LET j == Head(js)
         IN  PopulateJobs_CountsTwice(
               [jobs |-> Put(st.jobs, j.job_name, <<task_name, j.job_name>>),
                map_job2task |-> Put(st.map_job2task,
                                     RemoveWS(j.job_name), task_name),
                to_run |-> st.to_run +
                           (IF j.job_status = "update" THEN 2 ELSE 0)],
               task_name, Tail(js))

\* the inner loop over the jobs of one task (lines 951-955)
RECURSIVE PopulateJobs(_, _, _)
PopulateJobs(st, task_name, js) ==
    IF js = <<>> THEN st
    ELSE LET j == Head(js)
         IN  PopulateJobs(
               [jobs |-> Put(st.jobs, j.job_name, <<task_name, j.job_name>>),
                map_job2task |-> Put(st.map_job2task,
                                     RemoveWS(j.job_name), task_name),
                to_run |-> st.to_run +
                           (IF j.job_status = "update" THEN 1 ELSE 0)],
               task_name, Tail(js))

\* the jobs of a skipped directory-creation task indexed all the same
RECURSIVE Populate_IndexesSkipped(_, _)
Populate_IndexesSkipped(st, ts) ==
    IF ts = <<>> THEN st
    ELSE LET t == Head(ts)
             r == PopulateJobs([jobs |-> st.jobs,
                                map_job2task |-> st.map_job2task,
                                to_run |-> 0],
                               t.task_name, t.jobs)
         IN  Populate_IndexesSkipped(
               [jobs |-> r.jobs,
                map_job2task |-> r.map_job2task,
                tasks |-> IF StartsWith(t.task_name, <<"(mkdir">>)
                          THEN st.tasks
                          ELSE Put(st.tasks, t.task_name,
                                   [status |-> t.task_status,
                                    total |-> Len(t.jobs),
                                    completed |-> Len(t.jobs) - r.to_run])],
               Tail(ts))

\* the outer loop over the tasks (lines 946-959)
RECURSIVE Populate(_, _)
Populate(st, ts) ==
    IF ts = <<>> THEN st
    ELSE LET t == Head(ts)
         IN  IF StartsWith(t.task_name, <<"(mkdir">>)
             THEN Populate(st, Tail(ts))
             ELSE LET r == PopulateJobs([jobs |-> st.jobs,
                                         map_job2task |-> st.map_job2task,
                                         to_run |-> 0],
                                        t.task_name, t.jobs)
                  IN  Populate(
                        [jobs |-> r.jobs,
                         map_job2task |-> r.map_job2task,
                         tasks |-> Put(st.tasks, t.task_name,
                                       [status |-> t.task_status,
                                        total |-> Len(t.jobs),
                                        completed |-> Len(t.jobs) - r.to_run])],
                        Tail(ts))

\* re.match("Task = (.*)", line) is not None
MatchTaskHeader(line) ==
    Len(line) >= 4 /\ SubSeq(line, 1, 4) = <<"Task", WS, "=", WS>>

\* line 941: .groups() of a failed match raises AttributeError, which
\* split_by_task does not catch
ParseRaises(text) ==
    \E i \in 1..Len(text) :
      /\ StartsWith(Strip(text[i]), <<"Task", WS, "=", WS>>)
      /\ ~MatchTaskHeader(Strip(text[i]))

ParsePlan(text) ==
    Populate([jobs |-> EmptyDict, map_job2task |-> EmptyDict,
              tasks |-> EmptyDict],
             split_by_task(text))

(***************************************************************************)
(* The streaming filter: LoggingFilterProgress.filter                      *)
(***************************************************************************)
\* record.filename.endswith("task.py")
EndsWithTaskPy(filename) == filename \in {"task.py", "ruffus/task.py"}

\* the tokens whose characters include the word "completed"
HasCompleted(t) == t \in {"completed", "completed.txt"}

\* "completed" in record.msg
MarksCompleted(msg) == \E i \in 1..Len(msg) : HasCompleted(msg[i])

\* the share of the jobs still to run instead of the share completed
Percent_Remaining(t) ==
    IF t.total > 0 THEN <<100 * (t.total - t.completed), t.total>>
    ELSE <<0, 1>>

\* 100.0 * task_completed / task_total as the fraction <<numerator,
\* denominator>>, and 0 when the task has no jobs (lines 1007-1010)
Percent(t) ==
    IF t.total > 0 THEN <<100 * t.completed, t.total>> ELSE <<0, 1>>

\* an exception leaves filter: no decision is returned
Raise(tk) ==
    [tasks |-> tk, decision |-> "raise", attached |-> <<>>, emitted |-> <<>>,
     owner |-> <<>>]

\* lines 1005-1029: the progress fields of the record and the logged event;
\* self.tasks[task_name] raises KeyError for a name that is not a key
Progress(tk, task_name) ==
    IF task_name \notin DOMAIN tk THEN Raise(tk)
    ELSE
    LET t == tk[task_name]
    IN  [tasks |-> tk,
         decision |-> "keep",
         attached |-> <<[task_status |-> t.status,
                         task_total |-> t.total,
                         task_completed |-> t.completed,
                         task_completed_percent |-> Percent(t)]>>,
         emitted |-> <<[task |-> StripNamespace(task_name),
                        task_status |-> t.status,
                        task_total |-> t.total,
                        task_completed |-> t.completed,
                        task_completed_percent |-> Percent(t)]>>,
         owner |-> <<task_name>>]

\* return True / return None before line 1005
Return(tk, d) ==
    [tasks |-> tk, decision |-> d, attached |-> <<>>, emitted |-> <<>>,
     owner |-> <<>>]

\* the increment applied to the wrong list element: self.tasks[task_name][1]
CountCompleted_WrongField(tk, task_name) ==
    [tk EXCEPT ![task_name].total = @ + 1]

\* self.tasks[task_name][2] += 1
CountCompleted(tk, task_name) ==
    [tk EXCEPT ![task_name].completed = @ + 1]

\* a misspelt status for a completed task
PhaseStatus_Typo(before) ==
    IF before = <<"Task", WS, "enters", WS, "queue">> THEN "running"
    ELSE IF before = <<"Completed", WS, "Task">> THEN "complete"
    ELSE IF before = <<"Uptodate", WS, "Task">> THEN "uptodate"
    ELSE NoStatus

\* a fourth phase that sets a status
PhaseStatus_StartingRuns(before) ==
    IF before = <<"Task", WS, "enters", WS, "queue">> THEN "running"
    ELSE IF before = <<"Completed", WS, "Task">> THEN "completed"
    ELSE IF before = <<"Uptodate", WS, "Task">> THEN "uptodate"
    ELSE IF before = <<"Starting", WS, "Task">> THEN "running"
    ELSE NoStatus

\* the phase of a task-transition record and the status it sets
PhaseStatus(before) ==
    IF before = <<"Task", WS, "enters", WS, "queue">> THEN "running"
    ELSE IF before = <<"Completed", WS, "Task">> THEN "completed"
    ELSE IF before = <<"Uptodate", WS, "Task">> THEN "uptodate"
    ELSE NoStatus

\* re.search(r"Task\s+=", record.msg)
IsTaskRecord(msg) == SearchWordEq("Task", msg)

\* an unknown job label passed through (return True at line 977)
FilterJob_KeepUnknown(tk, j2t, msg) ==
    LET job_name == RemoveWS(BracketGroup(msg))
    IN  IF BracketGroup(msg) = <<>> THEN Return(tk, "keep")
        ELSE IF job_name \notin DOMAIN j2t THEN Return(tk, "keep")
        ELSE IF MarksCompleted(msg)
        THEN Progress(CountCompleted(tk, j2t[job_name]), j2t[job_name])
        ELSE Progress(tk, j2t[job_name])

\* a job record without the bracket pattern dropped (return at line 973)
FilterJob_DropUnparsable(tk, j2t, msg) ==
    LET job_name == RemoveWS(BracketGroup(msg))
    IN  IF BracketGroup(msg) = <<>> THEN Return(tk, "drop")
        ELSE IF job_name \notin DOMAIN j2t THEN Return(tk, "drop")
        ELSE IF MarksCompleted(msg)
        THEN Progress(CountCompleted(tk, j2t[job_name]), j2t[job_name])
        ELSE Progress(tk, j2t[job_name])

\* lines 968-979
FilterJob(tk, j2t, msg) ==
    LET job_name == RemoveWS(BracketGroup(msg))
    IN  IF BracketGroup(msg) = <<>> THEN Return(tk, "keep")
        ELSE IF job_name \notin DOMAIN j2t THEN Return(tk, "drop")
        ELSE IF MarksCompleted(msg)
        THEN Progress(CountCompleted(tk, j2t[job_name]), j2t[job_name])
        ELSE Progress(tk, j2t[job_name])

\* a task record naming an unknown task dropped (return at line 989)
FilterTask_DropUnknown(tk, msg) ==
    LET parts == SplitEq(Strip(msg))
    IN  IF Len(parts) # 2 THEN Return(tk, "keep")
        ELSE IF parts[2] \notin DOMAIN tk THEN Return(tk, "drop")
        ELSE IF PhaseStatus(parts[1]) = NoStatus THEN Return(tk, "keep")
        ELSE Progress([tk EXCEPT ![parts[2]].status = PhaseStatus(parts[1])],
                      parts[2])

\* the unpacking of line 983 outside the try block: ValueError leaves filter
FilterTask_Uncaught(tk, msg) ==
    LET parts == SplitEq(Strip(msg))
    IN  IF Len(parts) # 2 THEN Raise(tk)
        ELSE IF parts[2] \notin DOMAIN tk THEN Return(tk, "keep")
        ELSE IF PhaseStatus(parts[1]) = NoStatus THEN Return(tk, "keep")
        ELSE Progress([tk EXCEPT ![parts[2]].status = PhaseStatus(parts[1])],
                      parts[2])

\* lines 981-998
FilterTask(tk, msg) ==
    LET parts == SplitEq(Strip(msg))
    IN  IF Len(parts) # 2 THEN Return(tk, "keep")
        ELSE IF parts[2] \notin DOMAIN tk THEN Return(tk, "keep")
        ELSE IF PhaseStatus(parts[1]) = NoStatus THEN Return(tk, "keep")
        ELSE Progress([tk EXCEPT ![parts[2]].status = PhaseStatus(parts[1])],
                      parts[2])

\* filter(record): the new state table, the decision ("keep" for True,
\* "drop" for None), the fields attached to the record and the event logged.
\* Line 1002 cannot return: task_name is a string on both paths reaching it.
FilterResult(tk, j2t, r) ==
    IF ~EndsWithTaskPy(r.filename) THEN Return(tk, "keep")
    ELSE IF SearchWordEq("Job", r.msg) THEN FilterJob(tk, j2t, r.msg)
    ELSE IF IsTaskRecord(r.msg) THEN FilterTask(tk, r.msg)
    ELSE Return(tk, "keep")

(***************************************************************************)
(* Inputs: the plan texts and the log records.                             *)
(***************************************************************************)
TaskNames == {<<"align">>, <<"ns", "::", "count">>, <<"(mkdir", WS, "1)">>}

KnownIds == {"out1", "completed.txt"}

HeaderLine(name) == <<"Task", WS, "=", WS>> \o name

JobLine(id, update) ==
    <<WS, "Job", WS, WS, "=", WS, "[", "x", WS, "->", WS, id, "]">>
    \o (IF update THEN <<WS, "Job needs update", ":", WS, "Missing">>
        ELSE <<>>)

PlanLines ==
    {<<"Tasks which will be run", ":">>, <<"Tasks which are up-to-date", ":">>}
    \cup {HeaderLine(n) : n \in TaskNames}
    \cup {JobLine(id, u) : id \in KnownIds, u \in BOOLEAN}
    \cup {<<"\"", "doc", "\"">>, <<WS, "Job", WS, "=", WS, "wrapped">>}

Plans == UNION {[1..n -> PlanLines] : n \in 0..MaxLines}

JobMsg(id, suffix) ==
    <<"Job", WS, WS, "=", WS, "[", "x", WS, "->", WS>> \o id \o <<"]">>
    \o suffix

RecordIds == {<<"out1">>, <<"out1", WS>>, <<"completed.txt">>, <<"out3">>}

JobSuffixes == {<<>>, <<WS, "completed">>}

Phases == {<<"Task", WS, "enters", WS, "queue">>, <<"Completed", WS, "Task">>,
           <<"Uptodate", WS, "Task">>, <<"Starting", WS, "Task">>}

Messages ==
    {JobMsg(id, s) : id \in RecordIds, s \in JobSuffixes}
    \cup {<<"Job", WS, "=", WS, "wrapped">> \o s : s \in JobSuffixes}
    \cup {p \o <<WS, "=", WS>> \o n : p \in Phases, n \in TaskNames}
    \cup {<<"code", WS, "version">>}
    \cup {<<"Completed", WS, "Task", WS, "=", WS, "align", WS, "=", WS, "x">>,
          <<"Completed", WS, "Task", WS, "=", "align">>}

Records ==
    [filename : {"task.py"}, msg : Messages]
    \cup [filename : {"Control.py"},
          msg : {JobMsg(<<"out1">>, <<WS, "completed">>),
                 <<"Completed", WS, "Task", WS, "=", WS, "align">>}]

NoRecord == [filename |-> "", msg |-> <<>>]

(***************************************************************************)
(* The logging sink.  filter logs its event with self.logger.info (line    *)
(* 1027); self.logger is get_logger(), the logger "daisy.pipeline" (lines  *)
(* 127-128, 895), and that is the logger of main to which the tracker is   *)
(* added as a filter (lines 1066, 1159).  The logger makes a record of the *)
(* call and hands it to its filters before filter goes on to line 1029, so *)
(* filter is entered again from within itself.                             *)
(***************************************************************************)
\* an event logged in the scheduler's own format, from the scheduler's file
LoggedRecord_SchedulerFormat(ev) ==
    [filename |-> "task.py",
     msg |-> <<"Completed", WS, "Task", WS, "=", WS>> \o ev.task]

\* the record the logger makes of self.logger.info(json.dumps(data)): the
\* file name is that of the caller, the message the JSON text of the event
LoggedRecord(ev) ==
    [filename |-> "Control.py",
     msg |-> <<"{", "\"", "task", "\"", ":", WS, "\"">> \o ev.task
             \o <<"\"", ",", WS, "\"", "task_status", "\"", ":", WS, "\"",
                  ev.task_status, "\"", "}">>]

\* no event was logged: filter is not entered again
NotLogged(tk) == [tasks |-> tk, inner |-> <<>>, nlogged |-> 0]

\* filter entered from line 1027 with the record of event ev: the table it
\* leaves, the decisions of the nested calls from the outermost on, and the
\* number of events the nested calls log.  The nesting is followed to
\* MaxDepth calls.
RECURSIVE Reenter(_, _, _, _)
Reenter(tk, j2t, ev, depth) ==
    IF depth >= MaxDepth
    THEN [tasks |-> tk, inner |-> <<"nested">>, nlogged |-> 0]
    ELSE LET res == FilterResult(tk, j2t, LoggedRecord(ev))
         IN  IF res.emitted = <<>>
             THEN [tasks |-> res.tasks, inner |-> <<res.decision>>,
                   nlogged |-> 0]
             ELSE LET deeper == Reenter(res.tasks, j2t, res.emitted[1],
                                        depth + 1)
                  IN  [tasks |-> deeper.tasks,
                       inner |-> <<res.decision>> \o deeper.inner,
                       nlogged |-> 1 + deeper.nlogged]

(***************************************************************************)
(* The filesystem query cache: the module-level cached functions (lines    *)
(* 58-87) and the context manager cache_os_functions (lines 825-839).      *)
(***************************************************************************)
\* os.stat, os.path.abspath, os.path.realpath, os.path.relpath,
\* os.path.islink
Queries == {"stat", "abspath", "realpath", "relpath", "islink"}

\* the file names the queries are made with
Args == {"a.txt", "b.txt"}

\* the assignment to os.stat left out of the restoration
SavedEntries_StatLeftCached ==
    [q \in Queries |-> IF q = "stat" THEN "cached" ELSE "saved"]

\* lines 58-62 and 835-839: every entry point is the original function
SavedEntries == [q \in Queries |-> "saved"]

\* lines 827-831: every entry point is the memoizing wrapper
CachedEntries == [q \in Queries |-> "cached"]

\* SAVED_OS_STAT(filename) etc.: the answer of the original implementation
\* for the present state f of the file system
Live(q, a, f) == <<q, f[a]>>

\* E.cached_function: the result memoized under the argument tuple, the
\* wrapped function called and its result stored when there is none
cached_function(m, q, a, f) ==
    IF a \in DOMAIN m[q]
    THEN [memo |-> m, result |-> m[q][a], original |-> FALSE]
    ELSE [memo |-> [m EXCEPT ![q] = Put(@, a, Live(q, a, f))],
          result |-> Live(q, a, f), original |-> TRUE]

\* a call of os.stat(a) etc. through the entry point e[q]
EntryCall(e, m, q, a, f) ==
    IF e[q] = "cached" THEN cached_function(m, q, a, f)
    ELSE [memo |-> m, result |-> Live(q, a, f), original |-> TRUE]

CacheIdle ==
    /\ os_entry = SavedEntries
    /\ memo = [q \in Queries |-> EmptyDict]
    /\ fs = [a \in Args |-> 0]
    /\ region = "out"
    /\ last_exit = "none"
    /\ seen = EmptyDict
    /\ last_call = <<>>
    /\ nactivations = 0
    /\ ncalls = 0

\* with cache_os_functions(): the generator runs up to the yield
cache_os_functions_enter ==
    /\ region = "out"
    /\ nactivations < MaxActivations
    /\ os_entry' = CachedEntries
    /\ region' = "in"
    /\ seen' = EmptyDict
    /\ nactivations' = nactivations + 1
    /\ UNCHANGED <<memo, fs, last_exit, last_call, ncalls>>

\* The body of the with statement ends or returns: the generator is resumed
\* and runs the assignments behind the yield.
cache_os_functions_exit ==
    /\ region = "in"
    /\ os_entry' = SavedEntries
    /\ region' = "out"
    /\ \E k \in {"completed", "returned"} : last_exit' = k
    /\ UNCHANGED <<memo, fs, seen, last_call, nactivations, ncalls>>

\* The body of the with statement raises: the exception is thrown into the
\* generator at the yield, which has no try/finally, so the generator ends
\* there and the assignments behind the yield are not run.
cache_os_functions_raise ==
    /\ region = "in"
    /\ region' = "out"
    /\ last_exit' = "raised"
    /\ UNCHANGED <<os_entry, memo, fs, seen, last_call, nactivations, ncalls>>

\* some code calls os.stat(a), os.path.abspath(a), ...
query(q, a) ==
    /\ ncalls < MaxCalls
    /\ LET res == EntryCall(os_entry, memo, q, a, fs)
       IN  /\ memo' = res.memo
           /\ last_call' = <<[q |-> q, a |-> a, result |-> res.result,
                              original |-> res.original,
                              inside |-> region = "in"]>>
           /\ seen' = IF region = "in" /\ <<q, a>> \notin DOMAIN seen
                      THEN Put(seen, <<q, a>>, res.result) ELSE seen
    /\ ncalls' = ncalls + 1
    /\ UNCHANGED <<os_entry, fs, region, last_exit, nactivations>>

\* a file is created, removed or rewritten
fs_change(a) ==
    /\ fs' = [fs EXCEPT ![a] = 1 - @]
    /\ UNCHANGED <<os_entry, memo, region, last_exit, seen, last_call,
                   nactivations, ncalls>>

(***************************************************************************)
(* The cooperative pool: EventPool (lines 101-124).  The greenlets of the  *)
(* gevent pool are its outstanding units; a unit leaves the pool when it   *)
(* completes or is killed, and the result of a completed unit is queued    *)
(* for the iterator the scheduler polls.                                   *)
(***************************************************************************)
Units == 1..MaxUnits

\* timeout=None
NoTimeout == -1

Timeouts == {NoTimeout, 0, 1}

\* gevent.pool.Pool.__len__(self): the number of greenlets in the pool
Pool__len__(g) == Cardinality({u \in Units : g[u] = "running"})

\* __len__ without the replacement of 0
EventPool__len__Raw(g) == Pool__len__(g)

\* EventPool.__len__ (lines 106-111)
EventPool__len__(g) == IF Pool__len__(g) = 0 THEN 1 ELSE Pool__len__(g)

\* terminate that stops nothing, like close
kill_Nothing(g) == g

\* self.kill(): every greenlet of the pool is killed
kill(g) == [u \in Units |-> IF g[u] = "running" THEN "killed" ELSE g[u]]

\* a next that gives up when the supplied timeout has elapsed
NextReady_HonoursTimeout(res, t, el) ==
    res # <<>> \/ (t # NoTimeout /\ el >= t)

\* OLD_NEXT(instance) returns: a result is queued; timeout is not passed on
NextReady(res, t, el) == res # <<>>

PoolIdle ==
    /\ greenlets = [u \in Units |-> "none"]
    /\ results = <<>>
    /\ waiter = "idle"
    /\ timeout = NoTimeout
    /\ elapsed = 0
    /\ got = 0
    /\ accepting = TRUE
    /\ reported = -1
    /\ pool_op = "none"

\* the scheduler submits a unit of work to the pool
spawn(u) ==
    /\ accepting
    /\ greenlets[u] = "none"
    /\ greenlets' = [greenlets EXCEPT ![u] = "running"]
    /\ pool_op' = "spawn"
    /\ UNCHANGED <<results, waiter, timeout, elapsed, got, accepting,
                   reported>>

\* a unit runs to its end: it leaves the pool and its result is queued
unit_completes(u) ==
    /\ greenlets[u] = "running"
    /\ greenlets' = [greenlets EXCEPT ![u] = "done"]
    /\ results' = Append(results, u)
    /\ pool_op' = "complete"
    /\ UNCHANGED <<waiter, timeout, elapsed, got, accepting, reported>>

\* len(pool)
EventPool_len ==
    /\ reported' = EventPool__len__(greenlets)
    /\ pool_op' = "len"
    /\ UNCHANGED <<greenlets, results, waiter, timeout, elapsed, got,
                   accepting>>

\* pool.close(): pass
EventPool_close ==
    /\ pool_op' = "close"
    /\ UNCHANGED <<greenlets, results, waiter, timeout, elapsed, got,
                   accepting, reported>>

\* pool.terminate()
EventPool_terminate ==
    /\ greenlets' = kill(greenlets)
    /\ pool_op' = "terminate"
    /\ UNCHANGED <<results, waiter, timeout, elapsed, got, accepting,
                   reported>>

\* the scheduler calls next(timeout=t) on the result iterator
next_with_timeout(t) ==
    /\ waiter # "blocked"
    /\ waiter' = "blocked"
    /\ timeout' = t
    /\ elapsed' = 0
    /\ pool_op' = "next"
    /\ UNCHANGED <<greenlets, results, got, accepting, reported>>

\* time passes while the caller waits
tick ==
    /\ waiter = "blocked"
    /\ elapsed < MaxTicks
    /\ elapsed' = elapsed + 1
    /\ pool_op' = "tick"
    /\ UNCHANGED <<greenlets, results, waiter, timeout, got, accepting,
                   reported>>

\* the call returns to the scheduler; got is the unit whose result it
\* returns, 0 when it returns without one
next_returns ==
    /\ waiter = "blocked"
    /\ NextReady(results, timeout, elapsed)
    /\ waiter' = "returned"
    /\ got' = IF results # <<>> THEN Head(results) ELSE 0
    /\ results' = IF results # <<>> THEN Tail(results) ELSE results
    /\ pool_op' = "return"
    /\ UNCHANGED <<greenlets, timeout, elapsed, accepting, reported>>

(***************************************************************************)
(* One call of main (lines 1100-1303) for the actions that run the         *)
(* pipeline.  The tasks of the pipeline are executed by the workers of the *)
(* pool ruffus.pipeline_run creates from ruffus.task.Pool.                 *)
(***************************************************************************)
\* the actions of line 1137-1141 that enter the try block, and "debug"
RunActions == {"make", "show", "debug"}

\* CGATCore.Pipeline.Execution.start_session: opens the session handle
start_session(st) == [session |-> "open", nopened |-> st.nopened + 1,
                      nclosed |-> st.nclosed]

\* CGATCore.Pipeline.Execution.close_session: closes the handle if one is open
close_session(st) ==
    IF st.session = "open"
    THEN [session |-> "closed", nopened |-> st.nopened,
          nclosed |-> st.nclosed + 1]
    ELSE st

\* a choice that leaves the slot alone for the cooperative backend
ChosenPool_SlotUntouched(wc) == IF wc THEN "ThreadPool" ELSE "default"

\* lines 1161-1168: the class put into ruffus.task.Pool
ChosenPool(wc) == IF wc THEN "ThreadPool" ELSE "EventPool"

SessionState == [session |-> session, nopened |-> nopened,
                 nclosed |-> nclosed]

MainIdle ==
    /\ main_pc = "idle"
    /\ pipeline_action = "none"
    /\ without_cluster = FALSE
    /\ task_Pool = "default"
    /\ session = "none"
    /\ nopened = 0
    /\ nclosed = 0
    /\ ntodo = 0
    /\ worker = "idle"
    /\ job_error = FALSE

\* line 1125-1132: action "debug" opens the session and calls the method
main_debug ==
    /\ main_pc = "start"
    /\ pipeline_action = "debug"
    /\ LET st == start_session(SessionState)
       IN  /\ session' = st.session
           /\ nopened' = st.nopened
           /\ nclosed' = st.nclosed
    /\ main_pc' = "after"
    /\ UNCHANGED <<pipeline_action, without_cluster, task_Pool, ntodo,
                   worker, job_error>>
    /\ UNCHANGED cacheVars

\* line 1145: with cache_os_functions():
main_with_enter ==
    /\ main_pc = "start"
    /\ pipeline_action \in {"make", "show"}
    /\ cache_os_functions_enter
    /\ main_pc' = "in_with"
    /\ UNCHANGED <<pipeline_action, without_cluster, task_Pool, session,
                   nopened, nclosed, ntodo, worker, job_error>>

\* lines 1146-1176: the backend is chosen; the cooperative one opens the
\* session; then pipeline_run is called
main_make_setup ==
    /\ main_pc = "in_with"
    /\ pipeline_action = "make"
    /\ task_Pool' = ChosenPool(without_cluster)
    /\ LET st == IF without_cluster THEN SessionState
                 ELSE start_session(SessionState)
       IN  /\ session' = st.session
           /\ nopened' = st.nopened
           /\ nclosed' = st.nclosed
    /\ main_pc' = "running"
    /\ UNCHANGED <<pipeline_action, without_cluster, ntodo, worker,
                   job_error>>
    /\ UNCHANGED cacheVars

\* lines 1192-1243: the actions that only inspect the pipeline
main_other_action ==
    /\ main_pc = "in_with"
    /\ pipeline_action # "make"
    /\ main_pc' = "body_done"
    /\ UNCHANGED <<pipeline_action, without_cluster, task_Pool, session,
                   nopened, nclosed, ntodo, worker, job_error>>
    /\ UNCHANGED cacheVars

\* a worker of the pool takes a task and starts executing it
worker_starts_task ==
    /\ main_pc = "running"
    /\ worker = "idle"
    /\ ntodo > 0
    /\ ~job_error
    /\ worker' = "busy"
    /\ UNCHANGED <<main_pc, pipeline_action, without_cluster, task_Pool,
                   session, nopened, nclosed, ntodo, job_error>>
    /\ UNCHANGED cacheVars

\* the task being executed asks the file system about one of its files
worker_stat(a) ==
    /\ main_pc = "running"
    /\ worker = "busy"
    /\ query("stat", a)
    /\ UNCHANGED mainVars

\* the task ends, with or without an error
worker_finishes_task(ok) ==
    /\ main_pc = "running"
    /\ worker = "busy"
    /\ worker' = "idle"
    /\ ntodo' = ntodo - 1
    /\ job_error' = ~ok
    /\ UNCHANGED <<main_pc, pipeline_action, without_cluster, task_Pool,
                   session, nopened, nclosed>>
    /\ UNCHANGED cacheVars

\* ruffus.pipeline_run returns: every task has run without error
pipeline_run_returns ==
    /\ main_pc = "running"
    /\ worker = "idle"
    /\ ntodo = 0
    /\ ~job_error
    /\ main_pc' = "run_done"
    /\ UNCHANGED <<pipeline_action, without_cluster, task_Pool, session,
                   nopened, nclosed, ntodo, worker, job_error>>
    /\ UNCHANGED cacheVars

\* ruffus.pipeline_run raises RethrownJobError: the with block is left by
\* the exception and the except clause of line 1245 is entered
pipeline_run_raises ==
    /\ main_pc = "running"
    /\ worker = "idle"
    /\ job_error
    /\ cache_os_functions_raise
    /\ main_pc' = "except"
    /\ UNCHANGED <<pipeline_action, without_cluster, task_Pool, session,
                   nopened, nclosed, ntodo, worker, job_error>>

\* line 1190: close_session()
main_close_session ==
    /\ main_pc = "run_done"
    /\ LET st == close_session(SessionState)
       IN  /\ session' = st.session
           /\ nopened' = st.nopened
           /\ nclosed' = st.nclosed
    /\ main_pc' = "body_done"
    /\ UNCHANGED <<pipeline_action, without_cluster, task_Pool, ntodo,
                   worker, job_error>>
    /\ UNCHANGED cacheVars

\* the with block of line 1145 ends
main_with_exit ==
    /\ main_pc = "body_done"
    /\ cache_os_functions_exit
    /\ main_pc' = "after"
    /\ UNCHANGED <<pipeline_action, without_cluster, task_Pool, session,
                   nopened, nclosed, ntodo, worker, job_error>>

\* lines 1245-1277: the errors are logged and ValueError (or, with
\* options.debug, the job error itself) leaves main
main_except ==
    /\ main_pc = "except"
    /\ main_pc' = "raised"
    /\ UNCHANGED <<pipeline_action, without_cluster, task_Pool, session,
                   nopened, nclosed, ntodo, worker, job_error>>
    /\ UNCHANGED cacheVars

\* line 1303: E.stop(logger=get_logger()); main returns
main_stop ==
    /\ main_pc = "after"
    /\ main_pc' = "returned"
    /\ UNCHANGED <<pipeline_action, without_cluster, task_Pool, session,
                   nopened, nclosed, ntodo, worker, job_error>>
    /\ UNCHANGED cacheVars

(***************************************************************************)
(* The dump of the task graph: ruffus_return_dag (lines 472-522).  An edge *)
(* <<x, t>> says that task x is an immediate upstream dependency of t,     *)
(* that is, x is in t._get_inward().                                       *)
(***************************************************************************)
Nodes == {"A", "B", "C"}

\* the order in which _get_inward() lists the tasks
NodeOrder == <<"A", "B", "C">>

Graphs == {E \in SUBSET (Nodes \X Nodes) : Cardinality(E) <= MaxEdges}

RECURSIVE NodeSeqs(_)
NodeSeqs(n) ==
    IF n = 0 THEN {<<>>}
    ELSE NodeSeqs(n - 1) \cup
         {Append(q, x) : q \in {r \in NodeSeqs(n - 1) : Len(r) = n - 1},
                         x \in Nodes}

\* a list of targets names a task once
NoRepeat(q) == \A i, j \in 1..Len(q) : q[i] = q[j] => i = j

\* only the first of the parents of a task
get_inward_FirstOnly(E, t) ==
    LET parents == SelectSeq(NodeOrder, LAMBDA x : <<x, t>> \in E)
    IN  IF parents = <<>> THEN <<>> ELSE <<parents[1]>>

\* t._get_inward()
get_inward(E, t) == SelectSeq(NodeOrder, LAMBDA x : <<x, t>> \in E)

\* line 509: the header row
HeaderRow == [func_name |-> "function", parents |-> <<"parents">>]

\* the row written for task t: its name and the names of its parents
Row(E, t) == [func_name |-> t, parents |-> get_inward(E, t)]

\* lines 520-522 without the test of the visited set
RECURSIVE AppendUnvisited_NoTest(_, _, _)
AppendUnvisited_NoTest(st, vis, inw) ==
    IF inw = <<>> THEN st
    ELSE AppendUnvisited_NoTest(Append(st, Head(inw)), vis, Tail(inw))

\* lines 520-522: for tt in t._get_inward(): if tt not in visited: append
RECURSIVE AppendUnvisited(_, _, _)
AppendUnvisited(st, vis, inw) ==
    IF inw = <<>> THEN st
    ELSE AppendUnvisited(IF Head(inw) \notin vis THEN Append(st, Head(inw))
                         ELSE st,
                         vis, Tail(inw))

\* stack.pop(0): the list that is left
Pop(st) == Tail(st)

DagIdle ==
    /\ dag_pc = "idle"
    /\ edges = {}
    /\ target_tasks = <<>>
    /\ forcedtorun_tasks = <<>>
    /\ stack = <<>>
    /\ visited = {}
    /\ written = <<>>

\* lines 509-511: the header is written, the work list and the visited set
\* are set up
ruffus_return_dag_begin ==
    /\ dag_pc = "start"
    /\ stack' = target_tasks \o forcedtorun_tasks
    /\ visited' = {}
    /\ written' = <<HeaderRow>>
    /\ dag_pc' = "loop"
    /\ UNCHANGED <<edges, target_tasks, forcedtorun_tasks>>

\* lines 512-522: one pass of the while loop
ruffus_return_dag_step ==
    /\ dag_pc = "loop"
    /\ stack # <<>>
    /\ Len(written) < MaxRows
    /\ LET t == Head(stack)
       IN  /\ visited' = visited \cup {t}
           /\ written' = Append(written, Row(edges, t))
           /\ stack' = AppendUnvisited(Pop(stack), visited \cup {t},
                                       get_inward(edges, t))
    /\ UNCHANGED <<dag_pc, edges, target_tasks, forcedtorun_tasks>>

\* line 512: the work list is empty, the function returns
ruffus_return_dag_end ==
    /\ dag_pc = "loop"
    /\ stack = <<>>
    /\ dag_pc' = "done"
    /\ UNCHANGED <<edges, target_tasks, forcedtorun_tasks, stack, visited,
                   written>>

(***************************************************************************)
(* The state machine.                                                      *)
(***************************************************************************)
Init ==
    /\ pc = "start"
    /\ ruffus_text \in Plans
    /\ tasks = EmptyDict
    /\ jobs = EmptyDict
    /\ map_job2task = EmptyDict
    /\ record = NoRecord
    /\ decision = "none"
    /\ attached = <<>>
    /\ emitted = <<>>
    /\ events = EmptyDict
    /\ nrecords = 0
    /\ inner = <<>>
    /\ nlogged = 0
    /\ CacheIdle
    /\ PoolIdle
    /\ MainIdle
    /\ DagIdle

\* messenger = LoggingFilterProgress(stream.getvalue())
LoggingFilterProgress_init ==
    /\ pc = "start"
    /\ \E st \in {ParsePlan(ruffus_text)} :
           /\ tasks' = st.tasks
           /\ jobs' = st.jobs
           /\ map_job2task' = st.map_job2task
           /\ events' = [n \in DOMAIN st.tasks |-> <<>>]
    /\ pc' = IF ParseRaises(ruffus_text) THEN "failed" ELSE "parsed"
    /\ ruffus_text' = <<>>
    /\ UNCHANGED <<record, decision, attached, emitted, nrecords, inner,
                   nlogged>>

\* The logger passes one record to messenger.filter.  events is the logging
\* sink of line 1027: per owning task, the events logged so far, in order.
filter(r) ==
    /\ pc = "parsed"
    /\ nrecords < MaxRecords
    /\ \E res \in {FilterResult(tasks, map_job2task, r)} :
         \E nest \in {IF res.emitted = <<>> THEN NotLogged(res.tasks)
                       ELSE Reenter(res.tasks, map_job2task,
                                    res.emitted[1], 0)} :
           /\ tasks' = nest.tasks
           /\ inner' = nest.inner
           /\ nlogged' = Len(res.emitted) + nest.nlogged
           /\ decision' = res.decision
           /\ attached' = res.attached
           /\ emitted' = res.emitted
           /\ events' = IF res.owner = <<>> THEN events
                        ELSE [events EXCEPT
                                ![res.owner[1]] = @ \o res.emitted]
    /\ record' = r
    /\ nrecords' = nrecords + 1
    /\ UNCHANGED <<pc, ruffus_text, jobs, map_job2task>>

Next ==
    \/ LoggingFilterProgress_init /\ UNCHANGED <<cacheVars, poolVars, mainVars, dagVars>>
    \/ \E r \in Records : filter(r) /\ UNCHANGED <<cacheVars, poolVars, mainVars, dagVars>>

Spec == Init /\ [][Next]_vars

\* the specifications of the other components: each starts with the
\* components it does not exercise at rest
TrackerIdle ==
    /\ pc = "idle"
    /\ ruffus_text = <<>>
    /\ tasks = EmptyDict
    /\ jobs = EmptyDict
    /\ map_job2task = EmptyDict
    /\ record = NoRecord
    /\ decision = "none"
    /\ attached = <<>>
    /\ emitted = <<>>
    /\ events = EmptyDict
    /\ nrecords = 0
    /\ inner = <<>>
    /\ nlogged = 0

CacheInit == TrackerIdle /\ CacheIdle /\ PoolIdle /\ MainIdle /\ DagIdle

CacheNext ==
    \/ cache_os_functions_enter /\ UNCHANGED <<trackerVars, poolVars, mainVars, dagVars>>
    \/ cache_os_functions_exit /\ UNCHANGED <<trackerVars, poolVars, mainVars, dagVars>>
    \/ cache_os_functions_raise /\ UNCHANGED <<trackerVars, poolVars, mainVars, dagVars>>
    \/ \E q \in Queries, a \in Args :
         query(q, a) /\ UNCHANGED <<trackerVars, poolVars, mainVars, dagVars>>
    \/ \E a \in Args : fs_change(a) /\ UNCHANGED <<trackerVars, poolVars, mainVars, dagVars>>

SpecCache == CacheInit /\ [][CacheNext]_vars

PoolInit == TrackerIdle /\ CacheIdle /\ PoolIdle /\ MainIdle /\ DagIdle

PoolNext ==
    \/ \E u \in Units : spawn(u) /\ UNCHANGED <<trackerVars, cacheVars, mainVars, dagVars>>
    \/ \E u \in Units :
         unit_completes(u) /\ UNCHANGED <<trackerVars, cacheVars, mainVars, dagVars>>
    \/ EventPool_len /\ UNCHANGED <<trackerVars, cacheVars, mainVars, dagVars>>
    \/ EventPool_close /\ UNCHANGED <<trackerVars, cacheVars, mainVars, dagVars>>
    \/ EventPool_terminate /\ UNCHANGED <<trackerVars, cacheVars, mainVars, dagVars>>
    \/ \E t \in Timeouts :
         next_with_timeout(t) /\ UNCHANGED <<trackerVars, cacheVars, mainVars, dagVars>>
    \/ tick /\ UNCHANGED <<trackerVars, cacheVars, mainVars, dagVars>>
    \/ next_returns /\ UNCHANGED <<trackerVars, cacheVars, mainVars, dagVars>>

SpecPool == PoolInit /\ [][PoolNext]_vars

\* main is called with one of the actions, a backend option and a pipeline
\* with some tasks out of date
MainInit ==
    /\ TrackerIdle
    /\ CacheIdle
    /\ PoolIdle
    /\ main_pc = "start"
    /\ pipeline_action \in RunActions
    /\ without_cluster \in BOOLEAN
    /\ task_Pool = "default"
    /\ session = "none"
    /\ nopened = 0
    /\ nclosed = 0
    /\ ntodo \in 0..MaxTasks
    /\ worker = "idle"
    /\ job_error = FALSE
    /\ DagIdle

MainNext ==
    \/ main_debug /\ UNCHANGED <<trackerVars, poolVars, dagVars>>
    \/ main_with_enter /\ UNCHANGED <<trackerVars, poolVars, dagVars>>
    \/ main_make_setup /\ UNCHANGED <<trackerVars, poolVars, dagVars>>
    \/ main_other_action /\ UNCHANGED <<trackerVars, poolVars, dagVars>>
    \/ worker_starts_task /\ UNCHANGED <<trackerVars, poolVars, dagVars>>
    \/ \E a \in Args : worker_stat(a) /\ UNCHANGED <<trackerVars, poolVars, dagVars>>
    \/ \E ok \in BOOLEAN :
         worker_finishes_task(ok) /\ UNCHANGED <<trackerVars, poolVars, dagVars>>
    \/ pipeline_run_returns /\ UNCHANGED <<trackerVars, poolVars, dagVars>>
    \/ pipeline_run_raises /\ UNCHANGED <<trackerVars, poolVars, dagVars>>
    \/ main_close_session /\ UNCHANGED <<trackerVars, poolVars, dagVars>>
    \/ main_with_exit /\ UNCHANGED <<trackerVars, poolVars, dagVars>>
    \/ main_except /\ UNCHANGED <<trackerVars, poolVars, dagVars>>
    \/ main_stop /\ UNCHANGED <<trackerVars, poolVars, dagVars>>

SpecMain == MainInit /\ [][MainNext]_vars

\* ruffus_return_dag is called on a task graph with lists of requested and
\* forced targets
DagInit ==
    /\ TrackerIdle
    /\ CacheIdle
    /\ PoolIdle
    /\ MainIdle
    /\ dag_pc = "start"
    /\ edges \in Graphs
    /\ target_tasks \in {q \in NodeSeqs(MaxTargets) : NoRepeat(q)}
    /\ forcedtorun_tasks \in {q \in NodeSeqs(MaxTargets) : NoRepeat(q)}
    /\ Len(target_tasks) + Len(forcedtorun_tasks) <= MaxTargets
    /\ stack = <<>>
    /\ visited = {}
    /\ written = <<>>

DagNext ==
    \/ ruffus_return_dag_begin
         /\ UNCHANGED <<trackerVars, cacheVars, poolVars, mainVars>>
    \/ ruffus_return_dag_step
         /\ UNCHANGED <<trackerVars, cacheVars, poolVars, mainVars>>
    \/ ruffus_return_dag_end
         /\ UNCHANGED <<trackerVars, cacheVars, poolVars, mainVars>>

SpecDag == DagInit /\ [][DagNext]_vars

\* the function runs on: a call that can take a step takes it
SpecDagFair == SpecDag /\ WF_vars(DagNext)

(***************************************************************************)
(* Vocabulary of the properties.                                           *)
(***************************************************************************)
ParseStep == pc = "start" /\ pc' = "parsed"

FilterStep == pc = "parsed" /\ nrecords' = nrecords + 1

Filtered == pc = "parsed" /\ nrecords >= 1

\* the record comes from the scheduler's execution module
IsSchedulerRecord(r) == EndsWithTaskPy(r.filename)

\* a job-transition record: it contains the "Job =" token
IsJobTransition(r) == IsSchedulerRecord(r) /\ SearchWordEq("Job", r.msg)

\* the normalized bracketed output identifier of a record
JobLabel(r) == RemoveWS(BracketGroup(r.msg))

HasLabel(r) == BracketGroup(r.msg) # <<>>

HasKnownOwner(r) == HasLabel(r) /\ JobLabel(r) \in DOMAIN map_job2task

\* a task-transition record "<Phase> = <task name>"
IsTaskTransition(r) ==
    /\ IsSchedulerRecord(r)
    /\ ~SearchWordEq("Job", r.msg)
    /\ Len(SplitEq(Strip(r.msg))) = 2
    /\ SplitEq(Strip(r.msg))[1] \in Phases

PhaseOf(r) == SplitEq(Strip(r.msg))[1]

TaskOf(r) == SplitEq(Strip(r.msg))[2]

\* p <= q for percentages given as fractions with positive denominators
PctLE(p, q) == p[1] * q[2] <= q[1] * p[2]

\* the lines of a plan by kind
IsHeader(line) == StartsWith(Strip(line), <<"Task", WS, "=", WS>>)

HeaderName(line) == SubSeq(Strip(line), 5, Len(Strip(line)))

IsRunMarker(line) == StartsWith(Strip(line), <<"Tasks which will be run">>)

IsUpToDateMarker(line) ==
    StartsWith(Strip(line), <<"Tasks which are up-to-date">>)

Headers(text) == {i \in 1..Len(text) : IsHeader(text[i])}

Markers(text) ==
    {i \in 1..Len(text) : IsRunMarker(text[i]) \/ IsUpToDateMarker(text[i])}

\* the header whose TaskState the table keeps: the last one of its name that
\* is not a directory-creation task
KeptHeaders(text) ==
    {i \in Headers(text) :
       /\ ~StartsWith(HeaderName(text[i]), <<"(mkdir">>)
       /\ \A j \in Headers(text) :
            HeaderName(text[j]) = HeaderName(text[i]) => j <= i}

\* the job fragments of the header at line i: the text up to the next header
\* or the end of the text, split at the job separator
FragmentsOf(text, i) ==
    LET later == {j \in Headers(text) : j > i} \cup {Len(text) + 1}
        n == CHOOSE j \in later : \A k \in later : j <= k
    IN  SplitJobEq(Join([k \in 1..(n - i - 1) |-> Strip(text[i + k])]))

\* J: the fragments that carry a bracketed output identifier
JobCount(text, i) ==
    Cardinality({k \in 1..Len(FragmentsOf(text, i)) :
                   BracketGroup(FragmentsOf(text, i)[k]) # <<>>})

\* U: those of them marked "Job needs update"
UpdateCount(text, i) ==
    Cardinality({k \in 1..Len(FragmentsOf(text, i)) :
                   /\ BracketGroup(FragmentsOf(text, i)[k]) # <<>>
                   /\ Contains(FragmentsOf(text, i)[k],
                               <<"Job needs update">>)})

\* the mode of the section whose marker most recently precedes line i
ModeBefore(text, i) ==
    LET ms == {m \in Markers(text) : m < i}
        m == CHOOSE a \in ms : \A b \in ms : a >= b
    IN  IF IsRunMarker(text[m]) THEN "update" ELSE "ignore"

(***************************************************************************)
(* C1: a finished-job record of the scheduler whose normalized bracketed   *)
(* identifier is a key of the job index adds exactly 1 to completed_jobs   *)
(* of the owning task, leaves that task's status and total and every other *)
(* task unchanged, and the percentage attached to the record is            *)
(* 100*completed/total of the owner after the increment.                   *)
(***************************************************************************)
C1_CompletionCountsOnce ==
    [][(/\ FilterStep
        /\ IsJobTransition(record')
        /\ MarksCompleted(record'.msg)
        /\ HasKnownOwner(record'))
       => LET owner == map_job2task[JobLabel(record')]
          IN  /\ DOMAIN tasks' = DOMAIN tasks
              /\ tasks'[owner].completed = tasks[owner].completed + 1
              /\ tasks'[owner].status = tasks[owner].status
              /\ tasks'[owner].total = tasks[owner].total
              /\ \A t \in DOMAIN tasks \ {owner} : tasks'[t] = tasks[t]
              /\ Len(attached') = 1
              /\ tasks'[owner].total > 0 =>
                   attached'[1].task_completed_percent[1]
                     * tasks'[owner].total
                   = 100 * tasks'[owner].completed
                     * attached'[1].task_completed_percent[2]]_vars

C1_Witness ==
    /\ Filtered
    /\ IsJobTransition(record)
    /\ MarksCompleted(record.msg)
    /\ HasKnownOwner(record)
    /\ Cardinality(DOMAIN tasks) >= 2
    /\ attached # <<>>
    /\ attached[1].task_completed = 2
    /\ attached[1].task_total = 2

(***************************************************************************)
(* C2: for every task header of a plan (directory-creation tasks           *)
(* excepted) the parsed TaskState has total = J and completed = J - U, J   *)
(* the number of the task's job fragments with a bracketed identifier and  *)
(* U the number of those marked "Job needs update".                        *)
(***************************************************************************)
C2_CountsMatchFragments ==
    [][ParseStep
       => \A i \in KeptHeaders(ruffus_text) :
            LET name == HeaderName(ruffus_text[i])
            IN  /\ name \in DOMAIN tasks'
                /\ tasks'[name].total = JobCount(ruffus_text, i)
                /\ tasks'[name].completed =
                     JobCount(ruffus_text, i) - UpdateCount(ruffus_text, i)]_vars

(***************************************************************************)
(* C3: in a plan with both sections every parsed task starts with the mode *)
(* of the section whose marker most recently precedes its header.          *)
(***************************************************************************)
C3_StatusIsEnclosingSection ==
    [][(/\ ParseStep
        /\ \E m \in Markers(ruffus_text) : IsRunMarker(ruffus_text[m])
        /\ \E m \in Markers(ruffus_text) : IsUpToDateMarker(ruffus_text[m]))
       => \A i \in KeptHeaders(ruffus_text) :
            (\E m \in Markers(ruffus_text) : m < i)
            => tasks'[HeaderName(ruffus_text[i])].status
                 = ModeBefore(ruffus_text, i)]_vars

(***************************************************************************)
(* C4: a job-transition record of the scheduler whose normalized           *)
(* identifier is not a key of the job index changes no TaskState, emits no *)
(* event and is dropped.                                                   *)
(***************************************************************************)
C4_UnknownJobDropped ==
    [][(/\ FilterStep
        /\ IsJobTransition(record')
        /\ HasLabel(record')
        /\ JobLabel(record') \notin DOMAIN map_job2task)
       => /\ tasks' = tasks
          /\ emitted' = <<>>
          /\ attached' = <<>>
          /\ events' = events
          /\ decision' = "drop"]_vars

C4_Witness ==
    /\ Filtered
    /\ IsJobTransition(record)
    /\ HasLabel(record)
    /\ JobLabel(record) \notin DOMAIN map_job2task
    /\ MarksCompleted(record.msg)
    /\ DOMAIN map_job2task # {}
    /\ decision = "drop"

(***************************************************************************)
(* C5 as stated: a job-transition record of the scheduler from which no    *)
(* output identifier can be extracted is dropped and changes no TaskState. *)
(***************************************************************************)
C5_UnparsableJobDropped ==
    [][(FilterStep /\ IsJobTransition(record') /\ ~HasLabel(record'))
       => decision' = "drop" /\ tasks' = tasks]_vars

(***************************************************************************)
(* C5 amended: a job-transition record of the scheduler from which no      *)
(* output identifier can be extracted is kept; it changes no TaskState and *)
(* emits no event.                                                         *)
(***************************************************************************)
C5_UnparsableJobKept ==
    [][(FilterStep /\ IsJobTransition(record') /\ ~HasLabel(record'))
       => /\ decision' = "keep"
          /\ tasks' = tasks
          /\ emitted' = <<>>
          /\ attached' = <<>>]_vars

C5_Witness ==
    /\ Filtered
    /\ IsJobTransition(record)
    /\ ~HasLabel(record)
    /\ DOMAIN map_job2task # {}
    /\ decision = "keep"
    /\ emitted = <<>>

(***************************************************************************)
(* C6: the filter drops a record only if it is a job-transition record of  *)
(* the scheduler whose owner cannot be resolved; records of other modules, *)
(* task-transition records of any phase and task, job-transition records   *)
(* with a known owner and records that are neither are kept.               *)
(***************************************************************************)
C6_DropsOnlyUnresolvedJobs ==
    [][FilterStep
       => /\ decision' \in {"keep", "drop"}
          /\ decision' = "drop"
               => IsJobTransition(record') /\ ~HasKnownOwner(record')
          /\ ~IsSchedulerRecord(record') => decision' = "keep"
          /\ IsTaskTransition(record') => decision' = "keep"
          /\ (IsJobTransition(record') /\ HasKnownOwner(record'))
               => decision' = "keep"
          /\ (/\ IsSchedulerRecord(record')
              /\ ~IsJobTransition(record')
              /\ ~IsTaskTransition(record'))
               => decision' = "keep"]_vars

C6_Witness ==
    /\ Filtered
    /\ IsTaskTransition(record)
    /\ TaskOf(record) \notin DOMAIN tasks
    /\ DOMAIN tasks # {}
    /\ decision = "keep"

(***************************************************************************)
(* C7: the percentage reported for a task is never negative, is 0 when the *)
(* task's total is 0, and never decreases from one event of that task to   *)
(* the next.                                                               *)
(***************************************************************************)
C7_PercentNeverDecreases ==
    \A t \in DOMAIN events :
      \A i \in 1..Len(events[t]) :
        /\ events[t][i].task_completed_percent[2] > 0
        /\ events[t][i].task_completed_percent[1] >= 0
        /\ events[t][i].task_total = 0
             => events[t][i].task_completed_percent[1] = 0
        /\ i > 1 => PctLE(events[t][i - 1].task_completed_percent,
                          events[t][i].task_completed_percent)

C7_Witness ==
    \E t \in DOMAIN events :
      /\ Len(events[t]) = 2
      /\ events[t][1].task_completed_percent = <<100, 2>>
      /\ events[t][2].task_completed_percent = <<200, 2>>
      /\ MarksCompleted(record.msg)

(***************************************************************************)
(* C8: every event has a percentage within [0, 100], also when the stream  *)
(* repeats a completion record or completes a job the plan counted as      *)
(* already satisfied.                                                      *)
(***************************************************************************)
C8_PercentWithinRange ==
    \A t \in DOMAIN events :
      \A i \in 1..Len(events[t]) :
        /\ events[t][i].task_completed_percent[1] >= 0
        /\ events[t][i].task_completed_percent[1]
             <= 100 * events[t][i].task_completed_percent[2]

C10_PhaseSetsStatus ==
    [][(/\ FilterStep
        /\ IsTaskTransition(record')
        /\ TaskOf(record') \in DOMAIN tasks)
       => LET n == TaskOf(record')
              ph == PhaseOf(record')
          IN  /\ ph = <<"Task", WS, "enters", WS, "queue">>
                   => tasks' = [tasks EXCEPT ![n].status = "running"]
              /\ ph = <<"Completed", WS, "Task">>
                   => tasks' = [tasks EXCEPT ![n].status = "completed"]
              /\ ph = <<"Uptodate", WS, "Task">>
                   => tasks' = [tasks EXCEPT ![n].status = "uptodate"]
              /\ ph = <<"Starting", WS, "Task">>
                   => tasks' = tasks /\ decision' = "keep"]_vars

\* no job line marked "Job needs update" stands in an up-to-date section
NoUpdateInUpToDateSection(text) ==
    \A i \in 1..Len(text) :
      (/\ Contains(text[i], <<"Job needs update">>)
       /\ \E m \in Markers(text) : m < i)
      => ModeBefore(text, i) # "ignore"

(***************************************************************************)
(* C11 as stated: right after parsing any plan every task whose status is  *)
(* the up-to-date mode has completed_jobs = total_jobs, and every task has *)
(* 0 <= completed_jobs <= total_jobs.                                      *)
(***************************************************************************)
C11_UpToDateTasksComplete ==
    [][ParseStep
       => \A t \in DOMAIN tasks' :
            /\ tasks'[t].status = "ignore"
                 => tasks'[t].completed = tasks'[t].total
            /\ 0 <= tasks'[t].completed
            /\ tasks'[t].completed <= tasks'[t].total]_vars

(***************************************************************************)
(* C11 amended: right after parsing any plan every task has                *)
(* 0 <= completed_jobs <= total_jobs; every task whose status is the       *)
(* up-to-date mode has completed_jobs = total_jobs when no job of an       *)
(* up-to-date section of the plan is marked "Job needs update".            *)
(***************************************************************************)
C11_CompletedWithinTotal ==
    [][ParseStep
       => \A t \in DOMAIN tasks' :
            /\ 0 <= tasks'[t].completed
            /\ tasks'[t].completed <= tasks'[t].total
            /\ (/\ tasks'[t].status = "ignore"
                /\ NoUpdateInUpToDateSection(ruffus_text))
                 => tasks'[t].completed = tasks'[t].total]_vars

C11_Witness ==
    /\ pc = "parsed"
    /\ nrecords = 0
    /\ \E t \in DOMAIN tasks :
         /\ tasks[t].status = "ignore"
         /\ tasks[t].total = 2
         /\ tasks[t].completed = 2

(***************************************************************************)
(* Vocabulary of the properties of the filesystem query cache.             *)
(***************************************************************************)
QueryStep == ncalls' = ncalls + 1

NormalExits == {"completed", "returned"}

(***************************************************************************)
(* C12: on every exit path of the activation region (normal completion,    *)
(* early return, raised failure) the five original entry points are        *)
(* restored.                                                               *)
(***************************************************************************)
C12_RestoredOnEveryExit ==
    (region = "out" /\ last_exit # "none") => os_entry = SavedEntries

(***************************************************************************)
(* C13: within one activation, calls of a wrapped query with the same      *)
(* argument invoke the original implementation exactly once, at the first  *)
(* call, and all return that first result; different arguments and         *)
(* different queries are memoized independently.                           *)
(***************************************************************************)
C13_OriginalCalledOncePerActivation ==
    [][(QueryStep /\ region = "in")
       => LET c == last_call'[1]
          IN  /\ <<c.q, c.a>> \in DOMAIN seen
                   => ~c.original /\ c.result = seen[<<c.q, c.a>>]
              /\ <<c.q, c.a>> \notin DOMAIN seen
                   => c.original /\ c.result = Live(c.q, c.a, fs)]_vars

(***************************************************************************)
(* C14: after an activation region has exited normally, every call of a    *)
(* wrapped query through its entry point invokes the original              *)
(* implementation and returns the live result, also for an argument        *)
(* queried inside the region whose answer has changed since.               *)
(***************************************************************************)
C14_LiveAfterNormalExit ==
    [][(QueryStep /\ region = "out" /\ last_exit \in NormalExits)
       => /\ last_call'[1].original
          /\ last_call'[1].result
               = Live(last_call'[1].q, last_call'[1].a, fs)]_vars

C14_Witness ==
    /\ region = "out"
    /\ last_exit \in NormalExits
    /\ last_call # <<>>
    /\ ~last_call[1].inside
    /\ last_call[1].a \in DOMAIN memo[last_call[1].q]
    /\ memo[last_call[1].q][last_call[1].a] # last_call[1].result
    /\ last_call[1].result = Live(last_call[1].q, last_call[1].a, fs)

(***************************************************************************)
(* C15: the memoization table is discarded when an activation region       *)
(* exits; the first identical query of a later activation invokes the      *)
(* original implementation again.                                          *)
(***************************************************************************)
C15_MemoDiscardedOnExit ==
    /\ [][(region = "in" /\ region' = "out")
          => \A q \in Queries : DOMAIN memo'[q] = {}]_vars
    /\ [][(/\ QueryStep
           /\ region = "in"
           /\ nactivations >= 2
           /\ <<last_call'[1].q, last_call'[1].a>> \notin DOMAIN seen)
          => last_call'[1].original]_vars

\* the number of units the pool holds: submitted, not yet completed or killed
Outstanding == Pool__len__(greenlets)

\* C17: whenever the size of the pool has just been asked for, the value
\* reported is the number of outstanding units if there is at least one and 1
\* if there is none; it is never 0, also after terminate and after every unit
\* has completed.
C17_SizeNeverZero ==
    pool_op = "len" =>
        /\ reported = (IF Outstanding >= 1 THEN Outstanding ELSE 1)
        /\ reported # 0

\* the size is asked for after terminate killed units and none is left
C17_Witness ==
    /\ pool_op = "len"
    /\ Outstanding = 0
    /\ \E u \in Units : greenlets[u] = "killed"
    /\ reported = 1

TerminateStep == pool_op' = "terminate"

CloseStep == pool_op' = "close"

\* C18: terminate leaves no outstanding unit, every unit outstanding at the
\* call is killed and a killed unit never completes afterwards; close changes
\* neither the units, nor the queued results, nor the reported size, nor the
\* ability to submit.
C18_TerminateStopsCloseDoesNothing ==
    /\ [][TerminateStep =>
            /\ Pool__len__(greenlets') = 0
            /\ \A u \in Units :
                 greenlets[u] = "running" => greenlets'[u] = "killed"]_vars
    /\ [][\A u \in Units :
            greenlets[u] = "killed" =>
                /\ greenlets'[u] = "killed"
                /\ \A i \in 1..Len(results') : results'[i] # u]_vars
    /\ [][CloseStep =>
            /\ greenlets' = greenlets
            /\ results' = results
            /\ accepting' = accepting
            /\ EventPool__len__(greenlets') = EventPool__len__(greenlets)]_vars

\* terminate has stopped two outstanding units while a third had completed
C18_Witness ==
    /\ pool_op = "terminate"
    /\ Cardinality({u \in Units : greenlets[u] = "killed"}) >= 2
    /\ \E u \in Units : greenlets[u] = "done"

\* the timeout supplied to the pending call has run out
TimedOut == timeout # NoTimeout /\ elapsed >= timeout

\* C19: a blocked call to next returns only by handing over the result of a
\* completed unit, whatever timeout was supplied; while no result is queued
\* the caller stays blocked.
C19_NextIgnoresTimeout ==
    /\ [][(waiter = "blocked" /\ waiter' = "returned") =>
            /\ results # <<>>
            /\ got' = Head(results)
            /\ greenlets[got'] = "done"]_vars
    /\ [][(waiter = "blocked" /\ results = <<>>) =>
            waiter' = "blocked"]_vars

\* a call with timeout 0 returned a result only after time had passed
C19_Witness ==
    /\ waiter = "returned"
    /\ pool_op = "return"
    /\ timeout = 0
    /\ elapsed = MaxTicks
    /\ got \in Units

\* a worker of the pool is executing a task of the pipeline
WorkerExecutes == worker = "busy"

\* C16: while the cache region is active no worker of the pool executes a
\* task, and no task asks the file system through a swapped entry point: the
\* entry points are the saved ones whenever a task runs or queries.
C16_ActivationIsCriticalSection ==
    /\ [](WorkerExecutes => (region = "out" /\ os_entry = SavedEntries))
    /\ [][(WorkerExecutes /\ QueryStep) => ~last_call'[1].inside]_vars

\* main has returned or raised
MainEnded == main_pc \in {"returned", "raised"}

\* C20: when main ends after a run with the cooperative backend, the session
\* has been opened exactly once and closed exactly once, and is not open.
C20_SessionClosedExactlyOnce ==
    (MainEnded /\ task_Pool = "EventPool") =>
        /\ nopened = 1
        /\ nclosed = 1
        /\ session = "closed"

\* the scheduler has been started and main has not yet left pipeline_run
RunInProgress == main_pc = "running"

C22_SlotRestoredAfterRun ==
    (MainEnded /\ pipeline_action = "make") => task_Pool = "default"

\* the number of rows the dump has written for task n
Emitted(n) == Cardinality({i \in 1..Len(written) : written[i].func_name = n})

\* the cap on the rows is never what stops the loop
RowsBelowCap == Len(written) < MaxRows

\* C23: the dump writes at most one row for each task, whatever the graph
\* and the lists of requested and forced targets.
C23_EachNodeEmittedAtMostOnce == \A n \in Nodes : Emitted(n) <= 1

TwoCycle == {<<"A", "B">>, <<"B", "A">>}

\* C24: the dump ends with an empty work list on every graph, and on the
\* cycle A -> B -> A with target A it has then written A once and B once.
C24_DumpTerminates ==
    /\ <>(dag_pc = "done")
    /\ [](dag_pc = "done" => (stack = <<>> /\ RowsBelowCap))
    /\ []((/\ dag_pc = "done"
           /\ edges = TwoCycle
           /\ target_tasks = <<"A">>
           /\ forcedtorun_tasks = <<>>)
          => (Emitted("A") = 1 /\ Emitted("B") = 1 /\ Emitted("C") = 0))

\* the dump of the cycle A -> B -> A with target A has ended
C24_Witness ==
    /\ dag_pc = "done"
    /\ edges = TwoCycle
    /\ target_tasks = <<"A">>
    /\ forcedtorun_tasks = <<>>
    /\ Len(written) = 3

\* the constructor of the tracker has ended, by returning or by raising
ConstructorStep == pc = "start" /\ pc' # "start"

\* the message reaches the unpacking of line 983 with other than two parts
IsMalformedTaskRecord(r) ==
    /\ IsSchedulerRecord(r)
    /\ ~SearchWordEq("Job", r.msg)
    /\ IsTaskRecord(r.msg)
    /\ Len(SplitEq(Strip(r.msg))) # 2

\* C25: for every plan text the constructor returns with a state table, and
\* for every record with a textual message the filter returns a decision to
\* keep or to drop; neither raises.
C25_NeverRaises ==
    /\ [][ConstructorStep
          => /\ pc' = "parsed"
             /\ \A t \in DOMAIN tasks' :
                  /\ tasks'[t].total >= 0
                  /\ tasks'[t].status \in {"update", "ignore", NoStatus}]_vars
    /\ [][FilterStep => decision' \in {"keep", "drop"}]_vars

\* a task record with two ' = ' separators has been kept
C25_Witness ==
    /\ Filtered
    /\ IsMalformedTaskRecord(record)
    /\ Len(SplitEq(Strip(record.msg))) = 3
    /\ DOMAIN tasks # {}
    /\ decision = "keep"

\* the text of a record behind its bracketed part
AfterBracket(msg) ==
    LET cl == {k \in 1..Len(msg) : msg[k] = "]"}
    IN  IF cl = {} THEN msg
        ELSE SubSeq(msg, (CHOOSE k \in cl : \A m \in cl : k >= m) + 1,
                    Len(msg))

\* the record says that its job is finished: the word stands behind the
\* bracketed part, not inside the output identifier
MarksFinished(msg) == MarksCompleted(AfterBracket(msg))

\* C26: a job-transition record of the scheduler with a known owner that
\* does not mark the job as finished leaves completed_jobs of every task
\* unchanged, whatever the output identifier is.
C26_UnfinishedJobLeavesCounts ==
    [][(/\ FilterStep
        /\ IsJobTransition(record')
        /\ HasKnownOwner(record')
        /\ ~MarksFinished(record'.msg))
       => \A t \in DOMAIN tasks :
            tasks'[t].completed = tasks[t].completed]_vars

\* the phases that stand for a status
MappedPhases == {<<"Task", WS, "enters", WS, "queue">>,
                 <<"Completed", WS, "Task">>, <<"Uptodate", WS, "Task">>}

\* the records classified as pass-through
IsPassThrough(r) ==
    \/ ~IsSchedulerRecord(r)
    \/ IsTaskTransition(r) /\ TaskOf(r) \notin DOMAIN tasks
    \/ IsTaskTransition(r) /\ PhaseOf(r) \notin MappedPhases
    \/ IsSchedulerRecord(r) /\ ~IsJobTransition(r) /\ ~IsTaskTransition(r)

\* C27: a pass-through record changes no TaskState, gets no progress field,
\* causes no event and is kept.
C27_PassThroughUntouched ==
    [][(FilterStep /\ IsPassThrough(record'))
       => /\ tasks' = tasks
          /\ attached' = <<>>
          /\ emitted' = <<>>
          /\ events' = events
          /\ decision' = "keep"]_vars

\* a record of an unmapped phase that names a task of the table was kept
C27_Witness ==
    /\ Filtered
    /\ IsTaskTransition(record)
    /\ PhaseOf(record) \notin MappedPhases
    /\ TaskOf(record) \in DOMAIN tasks
    /\ tasks[TaskOf(record)].total >= 1
    /\ decision = "keep"
    /\ attached = <<>>

\* a recognized transition: a job transition with a resolvable owner, or a
\* task transition of a mapped phase naming a task of the table
IsRecognized(r) ==
    \/ IsJobTransition(r) /\ HasKnownOwner(r)
    \/ /\ IsTaskTransition(r)
       /\ TaskOf(r) \in DOMAIN tasks
       /\ PhaseOf(r) \in MappedPhases

\* the key of the state table the transition belongs to
OwnerOf(r) ==
    IF IsJobTransition(r) THEN map_job2task[JobLabel(r)] ELSE TaskOf(r)

\* C28: the filter emits exactly one event for each recognized transition
\* and none for any other record; the event carries the owner's status,
\* total and completed after the record, and the owner's name without its
\* namespace prefix, while the table keeps the full name as key.
C28_OneEventPerTransition ==
    [][FilterStep
       => /\ IsRecognized(record')
               => /\ Len(emitted') = 1
                  /\ OwnerOf(record') \in DOMAIN tasks'
                  /\ emitted'[1].task = StripNamespace(OwnerOf(record'))
                  /\ emitted'[1].task_status
                       = tasks'[OwnerOf(record')].status
                  /\ emitted'[1].task_total = tasks'[OwnerOf(record')].total
                  /\ emitted'[1].task_completed
                       = tasks'[OwnerOf(record')].completed
          /\ ~IsRecognized(record') => emitted' = <<>>]_vars

\* a job-completion record owned by task t
IsCompletionOwnedBy(r, t) ==
    /\ IsJobTransition(r)
    /\ HasKnownOwner(r)
    /\ MarksFinished(r.msg)
    /\ map_job2task[JobLabel(r)] = t

\* C29: no record changes the set of task names, a task's total_jobs or the
\* job index; completed_jobs of a task never decreases and changes only by a
\* job-completion record owned by that task.
C29_TableFrame ==
    [][FilterStep
       => /\ DOMAIN tasks' = DOMAIN tasks
          /\ jobs' = jobs
          /\ map_job2task' = map_job2task
          /\ \A t \in DOMAIN tasks :
               /\ tasks'[t].total = tasks[t].total
               /\ tasks'[t].completed >= tasks[t].completed
               /\ tasks'[t].completed # tasks[t].completed
                    => IsCompletionOwnedBy(record', t)]_vars

\* C30: every task name stored as a value of the job index is a key of the
\* state table and no directory-creation task is among them; resolving a job
\* label to its owner and reading or incrementing the owner's state never
\* fails.
C30_JobIndexOwnersKnown ==
    /\ [](\A k \in DOMAIN map_job2task :
            /\ map_job2task[k] \in DOMAIN tasks
            /\ ~StartsWith(map_job2task[k], <<"(mkdir">>))
    /\ [][(FilterStep /\ IsJobTransition(record') /\ HasKnownOwner(record'))
          => /\ decision' = "keep"
             /\ Len(attached') = 1
             /\ attached'[1].task_total
                  = tasks[map_job2task[JobLabel(record')]].total]_vars

\* a completion record was resolved to its owner in a table of two tasks
\* with one indexed job each
C30_Witness ==
    /\ Filtered
    /\ IsJobTransition(record)
    /\ HasKnownOwner(record)
    /\ MarksFinished(record.msg)
    /\ Cardinality(DOMAIN tasks) = 2
    /\ Cardinality(DOMAIN map_job2task) = 2
    /\ attached # <<>>
    /\ attached[1].task_completed = 1

\* C31: the event filter logs comes back to filter as a record of the same
\* logger and is passed through: the nested call keeps the record, changes
\* no TaskState and logs nothing, so one incoming record causes at most one
\* event and the nesting ends after one call.
C31_EmitNotReentrant ==
    [][FilterStep
       => /\ nlogged' <= 1
          /\ nlogged' = Len(emitted')
          /\ inner' = (IF emitted' = <<>> THEN <<>> ELSE <<"keep">>)
          /\ tasks' = FilterResult(tasks, map_job2task, record').tasks
          /\ emitted' # <<>>
               => /\ ~IsSchedulerRecord(LoggedRecord(emitted'[1]))
                  /\ IsPassThrough(LoggedRecord(emitted'[1]))]_vars

\* a completion record has logged its event and the nested call has kept it
C31_Witness ==
    /\ Filtered
    /\ IsJobTransition(record)
    /\ MarksFinished(record.msg)
    /\ Len(emitted) = 1
    /\ emitted[1].task = <<"align">>
    /\ inner = <<"keep">>
    /\ nlogged = 1

\* the requested and the forced targets
Targets ==
    {target_tasks[i] : i \in 1..Len(target_tasks)}
    \cup {forcedtorun_tasks[i] : i \in 1..Len(forcedtorun_tasks)}

\* the tasks reachable from the set S along immediate-upstream edges of E
RECURSIVE Reach(_, _)
Reach(E, S) ==
    LET more == S \cup {x \in Nodes : \E t \in S : <<x, t>> \in E}
    IN  IF more = S THEN S ELSE Reach(E, more)

\* the tasks reachable from the targets without passing through task t
ReachAvoiding(t) ==
    Reach({e \in edges : e[1] # t /\ e[2] # t}, Targets \ {t})

\* the index of the first row written for task n
FirstRow(n) ==
    CHOOSE i \in 1..Len(written) :
      /\ written[i].func_name = n
      /\ \A j \in 1..(i - 1) : written[j].func_name # n

\* C32: the dump starts with the header row and writes rows only for tasks
\* reachable from the targets; when it has ended every reachable task has a
\* row, and a target's first row stands before the first row of every task
\* that is reached only through it.
C32_DumpComplete ==
    /\ dag_pc \in {"loop", "done"} =>
         /\ written # <<>>
         /\ written[1] = HeaderRow
         /\ \A i \in 2..Len(written) :
              /\ written[i].func_name \in Reach(edges, Targets)
              /\ written[i] = Row(edges, written[i].func_name)
    /\ dag_pc = "done" =>
         /\ \A n \in Reach(edges, Targets) : Emitted(n) >= 1
         /\ \A t \in Targets :
              \A n \in Reach(edges, Targets) \ ({t} \cup ReachAvoiding(t)) :
                FirstRow(t) < FirstRow(n)

\* the dump of the chain C -> B -> A with target A has ended: three rows
\* behind the header, in the order A, B, C
C32_Witness ==
    /\ dag_pc = "done"
    /\ edges = {<<"B", "A">>, <<"C", "B">>}
    /\ target_tasks = <<"A">>
    /\ forcedtorun_tasks = <<>>
    /\ Len(written) = 4
    /\ written[4].func_name = "C"

\* main is at the call of line 1190 and makes it
CloseSessionCalled == main_pc = "run_done" /\ main_pc' = "body_done"

\* C33: close_session is called only in a run that has opened a session
\* before: never in a "make" run with the thread-pool backend, and every
\* call finds a session that an earlier start_session has opened.
C33_CloseOnlyIfOpened ==
    [][CloseSessionCalled =>
         /\ ~without_cluster
         /\ session = "open"
         /\ nopened > nclosed]_vars

====
